---- MODULE Spec2Model ----
(***************************************************************************)
(* The connection cache of src/lib/db.ts: connectToDatabase() and the      *)
(* process-wide object `cached` = {conn, promise}.                         *)
(*                                                                         *)
(* JavaScript runs one job at a time.  A job runs to completion; promise   *)
(* reactions (the continuation after an `await`, a `.then` callback) are   *)
(* jobs appended to a FIFO job queue.  The model keeps that queue          *)
(* explicitly: `queue` is a sequence of jobs <<kind, id>>:                 *)
(*   <<"call", k>>    client code that invokes connectToDatabase() as      *)
(*                    call k (a handler's continuation, e.g. after         *)
(*                    `await request.json()`),                             *)
(*   <<"then", a>>    the reaction `.then(() => mongoose.connection)` of   *)
(*                    attempt a (db.ts line 30),                           *)
(*   <<"resume", k>>  the continuation of call k after                     *)
(*                    `await cached.promise` (db.ts lines 36-42).          *)
(* The environment (clients, the driver) appends "call" and "then" jobs at *)
(* times of its own choosing; the head of the queue is the job that runs.  *)
(* A client fixes the place of its call among the queued jobs by the       *)
(* number of promise hops it takes before calling, e.g.                    *)
(*   Promise.resolve().then(() => connectToDatabase())                     *)
(* so every order of "call" jobs relative to other jobs can be produced.   *)
(***************************************************************************)
EXTENDS Integers, Sequences, FiniteSets, TLC

\* number of connectToDatabase() invocations in a run
MaxCalls == 4

Calls == 1..MaxCalls

\* cached.conn / cached.promise hold null (db.ts line 14)
Null == 0
\* the handle every attempt resolves with: mongoose.connection (db.ts line 30)
mongoose_connection == 1

VARIABLES
    conn,      \* cached.conn: Null or a handle
    promise,   \* cached.promise: Null or the index of an attempt
    attempt,   \* the promises built at lines 28-30, in creation order
    waiters,   \* per attempt: the calls awaiting it, in registration order
    pc,        \* per call: "idle", "queued", "waiting", "returned", "thrown"
    awaited,   \* per call: the attempt it awaits or awaited (Null: none)
    result,    \* per call: what it returned or threw
    queue,     \* the job queue
    uri,       \* process.env.MONGODB_URI: "undefined", "" or a connection string
    module,    \* src/lib/db.ts as a module: "unloaded", "loaded" or "failed"
    globalMongoose,  \* global.mongoose: "undefined" or "object" ({conn, promise})
    loads,     \* evaluations of the module body so far
    kind,      \* per request: which handler serves it ("none": not arrived)
    input,     \* per request: the email, password and session it carries
    hpc,       \* per request: "idle", "connecting", "creating", "done"
    outcome,   \* per request: the HTTP status sent, "user" or "throw" for
               \* authorize, "none" while unanswered
    authUser,  \* per request: the user object authorize returned
    ops,       \* per request: the model operations it issued, in order
    users,     \* the users collection
    videos,    \* the videos collection
    pathname,  \* req.nextUrl.pathname of the request the middleware saw last
    token,     \* the token withAuth passed with it: "null" or "jwt"
    allowed    \* what the authorized callback returned for it

vars == <<conn, promise, attempt, waiters, pc, awaited, result, queue,
          uri, module, globalMongoose, loads,
          kind, input, hpc, outcome, authUser, ops, users, videos,
          pathname, token, allowed>>

\* the state of the request handlers and of the collections
appVars == <<kind, input, hpc, outcome, authUser, ops, users, videos>>

\* the state of lines 3-15: configuration and module instance
modVars == <<uri, module, globalMongoose, loads>>

\* the state of the middleware
mwVars == <<pathname, token, allowed>>

\* what connectToDatabase() and the promise jobs never touch
otherVars == <<modVars, appVars, mwVars>>

\* requests served in a run; request r invokes connectToDatabase() as call r
MaxReqs == 2

Reqs == 1..MaxReqs

\* a password is <<its first 72 bytes, the bytes after them>>
NoPassword == <<"", "">>

\* body: the required fields of a videos POST body that are present and
\* non-empty; json: whether the body is valid JSON
NoInput == [email |-> "", password |-> NoPassword, session |-> FALSE,
            body |-> {}, json |-> TRUE]

NoUser == [id |-> 0, email |-> "", password |-> <<"none", "", "">>]

NoAuthUser == [id |-> 0, email |-> ""]

\* no request has arrived, the collections are empty
AppIdle ==
    /\ kind = [r \in Reqs |-> "none"]
    /\ input = [r \in Reqs |-> NoInput]
    /\ hpc = [r \in Reqs |-> "idle"]
    /\ outcome = [r \in Reqs |-> "none"]
    /\ authUser = [r \in Reqs |-> NoAuthUser]
    /\ ops = [r \in Reqs |-> << >>]
    /\ users = << >>
    /\ videos = << >>

\* the pathname of a request is never empty: << >> is "no request yet"
NoPath == << >>

\* the middleware has seen no request
MwIdle ==
    /\ pathname = NoPath
    /\ token = "null"
    /\ allowed = FALSE

\* evaluations of the module body in a run (first load and hot reloads)
MaxLoads == 2

UriValues == {"undefined", "", "mongodb://db"}

NoResult == [kind |-> "none", v |-> 0]
Value(h) == [kind |-> "value", v |-> h]
Error(a) == [kind |-> "error", v |-> a]

\* mongoose.connect invocations so far: one per promise built at line 28
connectCount == Len(attempt)

\* call k returned or threw
Completed(k) == pc[k] \in {"returned", "thrown"}

Settled(a) == attempt[a].status \in {"fulfilled", "rejected"}

\* attempts whose promise (cached.promise at its creation) is not yet settled
Outstanding == {a \in 1..Len(attempt) : ~Settled(a)}

Init ==
    /\ conn = Null
    /\ promise = Null
    /\ attempt = << >>
    /\ waiters = << >>
    /\ pc = [k \in Calls |-> "idle"]
    /\ awaited = [k \in Calls |-> Null]
    /\ result = [k \in Calls |-> NoResult]
    /\ queue = << >>
    /\ uri = "mongodb://db"
    /\ module = "loaded"
    /\ globalMongoose = "object"
    /\ loads = 1
    /\ AppIdle
    /\ MwIdle

\* The continuation that invokes connectToDatabase() as call k is queued.
ScheduleCall(k) ==
    /\ module = "loaded"
    /\ pc[k] = "idle"
    /\ pc' = [pc EXCEPT ![k] = "queued"]
    /\ queue' = Append(queue, <<"call", k>>)
    /\ UNCHANGED <<conn, promise, attempt, waiters, awaited, result>>
    /\ UNCHANGED modVars

\* Client code schedules an invocation of connectToDatabase().
Request(k) ==
    /\ ScheduleCall(k)
    /\ UNCHANGED <<appVars, mwVars>>

\* `await p` on promise a by call k: a pending promise records the reaction,
\* a settled one enqueues it at once.
AwaitQueueDropsSettled(q, a, k, att) == q
AwaitQueue(q, a, k, att) ==
    IF att[a].status \in {"fulfilled", "rejected"}
    THEN Append(q, <<"resume", k>>)
    ELSE q

AwaitWaiters(w, a, k, att) ==
    IF att[a].status \in {"fulfilled", "rejected"}
    THEN w
    ELSE [w EXCEPT ![a] = Append(@, k)]

\* line 18: `if(cached.conn)`
ConnCachedNever(c) == FALSE
ConnCached(c) == c # Null

\* line 22: `if(!cached.promise)`
NoPromiseAlways(p) == TRUE
NoPromise(p) == p = Null

\* lines 18-20: the cached handle is returned, nothing else happens.
FastPathReturnsNothing(k) ==
    /\ pc' = [pc EXCEPT ![k] = "returned"]
    /\ result' = [result EXCEPT ![k] = Value(Null)]
    /\ queue' = Tail(queue)
    /\ UNCHANGED <<conn, promise, attempt, waiters, awaited>>
FastPath(k) ==
    /\ pc' = [pc EXCEPT ![k] = "returned"]
    /\ result' = [result EXCEPT ![k] = Value(conn)]
    /\ queue' = Tail(queue)
    /\ UNCHANGED <<conn, promise, attempt, waiters, awaited>>

\* connectToDatabase(), lines 17-36, up to the suspension at `await`.
ConnectToDatabase(k) ==
    /\ queue # << >>
    /\ Head(queue) = <<"call", k>>
    /\ IF ConnCached(conn)
       THEN FastPath(k)
       ELSE LET fresh == NoPromise(promise)
                \* lines 28-30: mongoose.connect(...).then(...)
                att == IF fresh
                       THEN Append(attempt, [status |-> "connecting", value |-> Null])
                       ELSE attempt
                w0 == IF fresh THEN Append(waiters, << >>) ELSE waiters
                p == IF fresh THEN Len(att) ELSE promise
            IN  /\ attempt' = att
                /\ promise' = p
                \* line 36: await cached.promise
                /\ waiters' = AwaitWaiters(w0, p, k, att)
                /\ queue' = AwaitQueue(Tail(queue), p, k, att)
                /\ pc' = [pc EXCEPT ![k] = "waiting"]
                /\ awaited' = [awaited EXCEPT ![k] = p]
                /\ UNCHANGED <<conn, result>>
    /\ UNCHANGED otherVars

\* mongoose.connect(...) of attempt a settles; its `.then` reaction is queued.
ConnectOutcome(a, ok) ==
    /\ a \in 1..Len(attempt)
    /\ attempt[a].status = "connecting"
    /\ attempt' = [attempt EXCEPT ![a].status = IF ok THEN "connected" ELSE "failed"]
    /\ queue' = Append(queue, <<"then", a>>)
    /\ UNCHANGED <<conn, promise, waiters, pc, awaited, result>>
    /\ UNCHANGED otherVars

\* line 30: the value of `() => mongoose.connection`
ThenValuePerAttempt(a) == a
ThenValue(a) == mongoose_connection

\* the reactions of a settled promise, in registration order
ResumeJobsFirstOnly(ks) ==
    IF ks = << >> THEN << >> ELSE <<(<<"resume", Head(ks)>>)>>
RECURSIVE ResumeJobs(_)
ResumeJobs(ks) ==
    IF ks = << >> THEN << >>
    ELSE <<(<<"resume", Head(ks)>>)>> \o ResumeJobs(Tail(ks))

\* The reaction of line 30 runs: the promise of attempt a settles and the
\* continuations of the calls awaiting it are queued in registration order.
Then(a) ==
    /\ queue # << >>
    /\ Head(queue) = <<"then", a>>
    /\ attempt' = [attempt EXCEPT ![a] =
                     IF @.status = "connected"
                     THEN [status |-> "fulfilled", value |-> ThenValue(a)]
                     ELSE [status |-> "rejected", value |-> Null]]
    /\ queue' = Tail(queue) \o ResumeJobs(waiters[a])
    /\ waiters' = [waiters EXCEPT ![a] = << >>]
    /\ UNCHANGED <<conn, promise, pc, awaited, result>>
    /\ UNCHANGED otherVars

\* lines 37-40: the catch branch of call k.
CatchKeepsPromise(k) ==
    /\ pc' = [pc EXCEPT ![k] = "thrown"]
    /\ result' = [result EXCEPT ![k] = Error(awaited[k])]
    /\ UNCHANGED <<conn, promise, attempt, waiters>>
CatchRetries(k) ==
    /\ promise' = Len(attempt) + 1
    /\ attempt' = Append(attempt, [status |-> "connecting", value |-> Null])
    /\ waiters' = Append(waiters, << >>)
    /\ pc' = [pc EXCEPT ![k] = "thrown"]
    /\ result' = [result EXCEPT ![k] = Error(awaited[k])]
    /\ UNCHANGED conn
CatchSwallows(k) ==
    /\ promise' = Null
    /\ pc' = [pc EXCEPT ![k] = "returned"]
    /\ result' = [result EXCEPT ![k] = Value(conn)]
    /\ UNCHANGED <<conn, attempt, waiters>>
Catch(k) ==
    /\ promise' = Null
    /\ pc' = [pc EXCEPT ![k] = "thrown"]
    /\ result' = [result EXCEPT ![k] = Error(awaited[k])]
    /\ UNCHANGED <<conn, attempt, waiters>>

\* connectToDatabase(), lines 36-42, after the awaited promise settled.
Resume(k) ==
    /\ queue # << >>
    /\ Head(queue) = <<"resume", k>>
    /\ queue' = Tail(queue)
    /\ IF attempt[awaited[k]].status = "fulfilled"
       THEN \* lines 36 and 42
            /\ conn' = attempt[awaited[k]].value
            /\ pc' = [pc EXCEPT ![k] = "returned"]
            /\ result' = [result EXCEPT ![k] = Value(conn')]
            /\ UNCHANGED <<promise, attempt, waiters>>
       ELSE Catch(k)
    /\ UNCHANGED awaited
    /\ UNCHANGED otherVars

Next ==
    \/ \E k \in Calls : Request(k)
    \/ \E k \in Calls : ConnectToDatabase(k)
    \/ \E a \in Calls, ok \in BOOLEAN : ConnectOutcome(a, ok)
    \/ \E a \in Calls : Then(a)
    \/ \E k \in Calls : Resume(k)

Spec == Init /\ [][Next]_vars

\* no call is scheduled, suspended or about to resume
NoCallInProgress ==
    /\ queue = << >>
    /\ \A k \in Calls : pc[k] \in {"idle", "returned", "thrown"}

\* Sequential use: a call is issued only after the previous one completed.
SeqRequest(k) == NoCallInProgress /\ Request(k)

SeqNext ==
    \/ \E k \in Calls : SeqRequest(k)
    \/ \E k \in Calls : ConnectToDatabase(k)
    \/ \E a \in Calls, ok \in BOOLEAN : ConnectOutcome(a, ok)
    \/ \E a \in Calls : Then(a)
    \/ \E k \in Calls : Resume(k)

SeqSpec == Init /\ [][SeqNext]_vars

\* Every mongoose.connect(...) settles, and the job at the head of the queue
\* runs: the event loop never stops while jobs are queued.
Fairness ==
    /\ \A a \in Calls : WF_vars(\E ok \in BOOLEAN : ConnectOutcome(a, ok))
    /\ \A k \in Calls : WF_vars(ConnectToDatabase(k))
    /\ \A a \in Calls : WF_vars(Then(a))
    /\ \A k \in Calls : WF_vars(Resume(k))

FairSpec == Init /\ [][Next]_vars /\ Fairness

(***************************************************************************)
(* Module initialization, src/lib/db.ts lines 3-15.                        *)
(***************************************************************************)
\* line 5: `if(!MONGODB_URI)`
UriMissingOnlyUndefined(u) == u = "undefined"
UriMissing(u) == u \in {"undefined", ""}

\* line 13: `if(!cached)` with cached = global.mongoose
CacheExistsNever(g) == FALSE
CacheExists(g) == g = "object"

\* The module body runs (first import, or again on a hot reload).
LoadModule ==
    /\ loads < MaxLoads
    /\ loads' = loads + 1
    /\ IF UriMissing(uri)
       THEN \* line 6: throw
            /\ module' = "failed"
            /\ UNCHANGED <<conn, promise, globalMongoose>>
       ELSE /\ module' = "loaded"
            /\ IF CacheExists(globalMongoose)
               THEN \* line 9
                    UNCHANGED <<conn, promise, globalMongoose>>
               ELSE \* line 14
                    /\ globalMongoose' = "object"
                    /\ conn' = Null
                    /\ promise' = Null
    /\ UNCHANGED <<attempt, waiters, pc, awaited, result, queue, uri>>
    /\ UNCHANGED <<appVars, mwVars>>

\* the process before src/lib/db.ts is first imported
ModInit ==
    /\ conn = Null
    /\ promise = Null
    /\ attempt = << >>
    /\ waiters = << >>
    /\ pc = [k \in Calls |-> "idle"]
    /\ awaited = [k \in Calls |-> Null]
    /\ result = [k \in Calls |-> NoResult]
    /\ queue = << >>
    /\ uri \in UriValues
    /\ module = "unloaded"
    /\ globalMongoose = "undefined"
    /\ loads = 0
    /\ AppIdle
    /\ MwIdle

ModNext ==
    \/ LoadModule
    \/ \E k \in Calls : Request(k)
    \/ \E k \in Calls : ConnectToDatabase(k)
    \/ \E a \in Calls, ok \in BOOLEAN : ConnectOutcome(a, ok)
    \/ \E a \in Calls : Then(a)
    \/ \E k \in Calls : Resume(k)

ModSpec == ModInit /\ [][ModNext]_vars

(***************************************************************************)
(* The request handlers: registration POST, credential authorize, videos   *)
(* GET and videos POST, and the collections behind the User and Video      *)
(* models.  Request r invokes connectToDatabase() as call r.               *)
(***************************************************************************)
dbVars == <<conn, promise, attempt, waiters, pc, awaited, result, queue>>

\* "" stands for a field that is absent or empty: both are falsy
Emails == {"", "a@x"}

\* "p" and "q" stand for two different 72-byte strings: <<"p", "">> and
\* <<"p", "x">> are different passwords with the same first 72 bytes
Passwords == {NoPassword, <<"p", "">>, <<"p", "x">>, <<"q", "">>}

\* the bytes of the password that bcrypt reads: bcryptjs hashes the first 72
\* bytes of its input and ignores the rest
HashInput(pw) == pw[1]

\* `!password`, `!credentials?.password`: the empty string is falsy
PasswordMissing(pw) == pw = NoPassword

Salts == {"s1", "s2"}

RequiredFields == {"title", "description", "videoUrl", "thumbnailUrl"}

\* the bodies of videos POST requests, each given by the required fields it
\* holds with a non-empty value: all four, all but one, none
Bodies ==
    {RequiredFields, {}} \cup {RequiredFields \ {f} : f \in RequiredFields}

\* route.ts lines 73-78:
\* !body.title || !body.description || !body.videoUrl || !body.thumbnailUrl
MissingRequiredNever(body) == FALSE
MissingRequired(body) == \E f \in RequiredFields : f \notin body

\* route.ts line 92: quality defaults to 100
DefaultQuality == 100
\* Video.ts line 58: quality: { min: 1, max: 100 }
MinQuality == 1
MaxQuality == 100

Qualities == {0, 50, 101}

\* `!email`, `!password`, `!credentials?.email`
FieldMissing(v) == v = ""

\* bcrypt.hash(password, 10) in the pre-save hook: a salted digest
PreSave(pw, salt) == <<"bcrypt", salt, HashInput(pw)>>

\* bcrypt.compare(password, user.password)
CompareAlwaysTrue(pw, stored) == TRUE
Compare(pw, stored) == stored[1] = "bcrypt" /\ stored[3] = HashInput(pw)

\* User.findOne({email}): the first matching document, or null
FindOne(us, em) ==
    IF \E i \in 1..Len(us) : us[i].email = em
    THEN us[CHOOSE i \in 1..Len(us) :
               /\ us[i].email = em
               /\ \A j \in 1..Len(us) : us[j].email = em => i <= j]
    ELSE NoUser

\* the unique index on email: an insert of a second document with the same
\* email is rejected
UniqueViolationNever(us, em) == FALSE
UniqueViolation(us, em) == \E i \in 1..Len(us) : us[i].email = em

\* `await connectToDatabase()` returned rather than threw
ConnectedOkAlways(r) == TRUE
ConnectedOk(r) == pc[r] = "returned"

\* the status of the handlers' catch branches
ServerErrorAsOk == "200"
ServerError == "500"

\* `if (!session)`
SessionMissingNever(sess) == FALSE
SessionMissing(sess) == ~sess

\* requests are numbered in their order of arrival
Arrives(r) ==
    /\ kind[r] = "none"
    /\ \A q \in Reqs : q < r => kind[q] # "none"

Respond(r, st) ==
    /\ outcome' = [outcome EXCEPT ![r] = st]
    /\ hpc' = [hpc EXCEPT ![r] = "done"]

Issue(r, op) == ops' = [ops EXCEPT ![r] = Append(@, op)]

\* registration POST, lines 10-30: parse, validate, call connectToDatabase()
RegisterStart(r) ==
    /\ module = "loaded"
    /\ Arrives(r)
    /\ kind' = [kind EXCEPT ![r] = "register"]
    /\ \E em \in Emails, pw \in Passwords, parsed \in BOOLEAN :
           /\ parsed \/ (em = "" /\ pw = NoPassword)
           /\ input' = [input EXCEPT ![r] = [NoInput EXCEPT !.email = em, !.password = pw]]
           /\ IF ~parsed
              THEN \* request.json() throws: lines 68-73
                   /\ Respond(r, ServerError)
                   /\ UNCHANGED <<dbVars, modVars>>
              ELSE IF FieldMissing(em) \/ PasswordMissing(pw)
              THEN \* lines 18-23
                   /\ Respond(r, "400")
                   /\ UNCHANGED <<dbVars, modVars>>
              ELSE \* line 30
                   /\ ScheduleCall(r)
                   /\ hpc' = [hpc EXCEPT ![r] = "connecting"]
                   /\ UNCHANGED outcome
           /\ UNCHANGED <<authUser, ops, users, videos>>
    /\ UNCHANGED mwVars

\* registration POST, lines 30-43: connectToDatabase() completed, findOne
RegisterAfterConnect(r) ==
    /\ kind[r] = "register"
    /\ hpc[r] = "connecting"
    /\ Completed(r)
    /\ IF ~ConnectedOk(r)
       THEN /\ Respond(r, ServerError)
            /\ UNCHANGED ops
       ELSE /\ Issue(r, "User.findOne")
            /\ IF FindOne(users, input[r].email) # NoUser
               THEN Respond(r, "400")
               ELSE /\ hpc' = [hpc EXCEPT ![r] = "creating"]
                    /\ UNCHANGED outcome
    /\ UNCHANGED <<kind, input, authUser, users, videos>>
    /\ UNCHANGED <<dbVars, modVars>>
    /\ UNCHANGED mwVars

\* registration POST, lines 52-67: User.create with the pre-save hook
RegisterCreate(r) ==
    /\ kind[r] = "register"
    /\ hpc[r] = "creating"
    /\ Issue(r, "User.create")
    /\ \E salt \in Salts :
           /\ IF UniqueViolation(users, input[r].email)
              THEN /\ Respond(r, ServerError)
                   /\ UNCHANGED users
              ELSE /\ users' = Append(users, [id |-> Len(users) + 1,
                                              email |-> input[r].email,
                                              password |-> PreSave(input[r].password, salt)])
                   /\ Respond(r, "201")
           /\ UNCHANGED <<kind, input, authUser, videos>>
           /\ UNCHANGED <<dbVars, modVars>>
    /\ UNCHANGED mwVars

\* authorize, auth.ts lines 15-21
AuthorizeStart(r) ==
    /\ module = "loaded"
    /\ Arrives(r)
    /\ kind' = [kind EXCEPT ![r] = "authorize"]
    /\ \E em \in Emails, pw \in Passwords :
           /\ input' = [input EXCEPT ![r] = [NoInput EXCEPT !.email = em, !.password = pw]]
           /\ IF FieldMissing(em) \/ PasswordMissing(pw)
              THEN \* line 17
                   /\ Respond(r, "throw")
                   /\ UNCHANGED <<dbVars, modVars>>
              ELSE \* line 21
                   /\ ScheduleCall(r)
                   /\ hpc' = [hpc EXCEPT ![r] = "connecting"]
                   /\ UNCHANGED outcome
           /\ UNCHANGED <<authUser, ops, users, videos>>
    /\ UNCHANGED mwVars

\* authorize, auth.ts lines 21-45
AuthorizeAfterConnect(r) ==
    /\ kind[r] = "authorize"
    /\ hpc[r] = "connecting"
    /\ Completed(r)
    /\ IF ~ConnectedOk(r)
       THEN /\ Respond(r, "throw")
            /\ UNCHANGED <<ops, authUser>>
       ELSE LET user == FindOne(users, input[r].email) IN
            /\ Issue(r, "User.findOne")
            /\ IF user = NoUser
               THEN /\ Respond(r, "throw")
                    /\ UNCHANGED authUser
               ELSE IF ~Compare(input[r].password, user.password)
               THEN /\ Respond(r, "throw")
                    /\ UNCHANGED authUser
               ELSE /\ Respond(r, "user")
                    /\ authUser' = [authUser EXCEPT ![r] =
                                       [id |-> user.id, email |-> user.email]]
    /\ UNCHANGED <<kind, input, users, videos>>
    /\ UNCHANGED <<dbVars, modVars>>
    /\ UNCHANGED mwVars

\* videos GET, route.ts lines 7-9
VideosGetStart(r) ==
    /\ module = "loaded"
    /\ Arrives(r)
    /\ kind' = [kind EXCEPT ![r] = "videosGET"]
    /\ ScheduleCall(r)
    /\ hpc' = [hpc EXCEPT ![r] = "connecting"]
    /\ UNCHANGED <<input, outcome, authUser, ops, users, videos>>
    /\ UNCHANGED mwVars

\* videos GET, route.ts lines 9-42
VideosGetAfterConnect(r) ==
    /\ kind[r] = "videosGET"
    /\ hpc[r] = "connecting"
    /\ Completed(r)
    /\ IF ~ConnectedOk(r)
       THEN /\ Respond(r, ServerError)
            /\ UNCHANGED ops
       ELSE /\ Issue(r, "Video.find")
            /\ Respond(r, "200")
    /\ UNCHANGED <<kind, input, authUser, users, videos>>
    /\ UNCHANGED <<dbVars, modVars>>
    /\ UNCHANGED mwVars

\* videos POST, route.ts lines 45-53
VideosPostStart(r) ==
    /\ module = "loaded"
    /\ Arrives(r)
    /\ kind' = [kind EXCEPT ![r] = "videosPOST"]
    /\ \E sess \in BOOLEAN :
           /\ input' = [input EXCEPT ![r] = [NoInput EXCEPT !.session = sess]]
           /\ IF SessionMissing(sess)
              THEN \* lines 49-51
                   /\ Respond(r, "401")
                   /\ UNCHANGED <<dbVars, modVars>>
              ELSE \* line 53
                   /\ ScheduleCall(r)
                   /\ hpc' = [hpc EXCEPT ![r] = "connecting"]
                   /\ UNCHANGED outcome
           /\ UNCHANGED <<authUser, ops, users, videos>>
    /\ UNCHANGED mwVars

\* videos POST, route.ts lines 53-119. The body is read at line 55: the
\* model picks it when the handler gets there and records what the request
\* carried, also for a request whose connect failed and never read it.
\* q is the quality when hasQ.
VideosPostAfterConnect(r) ==
    /\ kind[r] = "videosPOST"
    /\ hpc[r] = "connecting"
    /\ Completed(r)
    /\ \E parsed \in BOOLEAN, body \in Bodies,
          hasQ \in BOOLEAN, q \in Qualities :
           \* a body that is not JSON holds no field
           /\ parsed \/ body = {}
           /\ input' = [input EXCEPT ![r].body = body, ![r].json = parsed]
           /\ IF ~ConnectedOk(r) \/ ~parsed
              THEN \* lines 113-118
                   /\ Respond(r, ServerError)
                   /\ UNCHANGED <<ops, videos>>
              ELSE IF MissingRequired(body)
              THEN \* lines 73-83
                   /\ Respond(r, "400")
                   /\ UNCHANGED <<ops, videos>>
              ELSE LET quality == IF hasQ THEN q ELSE DefaultQuality IN
                   /\ Issue(r, "Video.create")
                   /\ IF quality < MinQuality \/ quality > MaxQuality
                      THEN \* the schema validator rejects the document
                           /\ Respond(r, ServerError)
                           /\ UNCHANGED videos
                      ELSE /\ videos' = Append(videos, [by |-> r, quality |-> quality])
                           /\ Respond(r, "200")
           /\ UNCHANGED <<kind, authUser, users>>
           /\ UNCHANGED <<dbVars, modVars>>
    /\ UNCHANGED mwVars

AppNext ==
    \/ \E r \in Reqs : RegisterStart(r)
    \/ \E r \in Reqs : RegisterAfterConnect(r)
    \/ \E r \in Reqs : RegisterCreate(r)
    \/ \E r \in Reqs : AuthorizeStart(r)
    \/ \E r \in Reqs : AuthorizeAfterConnect(r)
    \/ \E r \in Reqs : VideosGetStart(r)
    \/ \E r \in Reqs : VideosGetAfterConnect(r)
    \/ \E r \in Reqs : VideosPostStart(r)
    \/ \E r \in Reqs : VideosPostAfterConnect(r)
    \/ \E k \in Calls : ConnectToDatabase(k)
    \/ \E a \in Calls, ok \in BOOLEAN : ConnectOutcome(a, ok)
    \/ \E a \in Calls : Then(a)
    \/ \E k \in Calls : Resume(k)

AppSpec == Init /\ [][AppNext]_vars

(***************************************************************************)
(* The middleware (src/lib/api-client.ts lines 137-163): withAuth calls    *)
(* the authorized callback with the request's pathname and token.          *)
(*                                                                         *)
(* A pathname is the sequence of the pieces it is written with, so         *)
(* "/api/auth" is <<"/", "api", "/", "auth">> and "/api/authx" is          *)
(* <<"/", "api", "/", "auth", "x">>.  No piece is a prefix of another, so  *)
(* one string starts with another exactly when its sequence starts with    *)
(* the other's sequence.                                                   *)
(***************************************************************************)
\* longest pathname of a run, in pieces
MaxPathLen == 5

Pieces == {"/", "api", "auth", "videos", "login", "register", "x"}

RECURSIVE SeqsUpTo(_)
SeqsUpTo(n) ==
    IF n = 0 THEN {<< >>}
    ELSE LET shorter == SeqsUpTo(n - 1)
         IN  shorter \cup {Append(p, c) : p \in {q \in shorter : Len(q) = n - 1},
                                          c \in Pieces}

\* a URL's pathname starts with "/"
Pathnames == {p \in SeqsUpTo(MaxPathLen) : p # << >> /\ p[1] = "/"}

Tokens == {"null", "jwt"}

\* String.prototype.startsWith
StartsWithWholeOnly(str, prefix) == str = prefix
StartsWith(str, prefix) ==
    /\ Len(str) >= Len(prefix)
    /\ SubSeq(str, 1, Len(prefix)) = prefix

\* `!!token`
Truthy(tok) == tok # "null"

\* the authorized callback, lines 143-161
Authorized(tok, path) ==
    IF \/ StartsWith(path, <<"/", "api", "/", "auth">>)
       \/ path = <<"/", "login">>
       \/ path = <<"/", "register">>
    THEN TRUE
    ELSE IF path = <<"/">> \/ StartsWith(path, <<"/", "api", "/", "videos">>)
    THEN TRUE
    ELSE Truthy(tok)

\* a request reaches the middleware
Middleware ==
    /\ \E path \in Pathnames, tok \in Tokens :
           /\ pathname' = path
           /\ token' = tok
           /\ allowed' = Authorized(tok, path)
    /\ UNCHANGED <<dbVars, modVars, appVars>>

MwNext == Middleware

MwSpec == Init /\ [][MwNext]_vars

TypeOK ==
    /\ conn \in {Null, mongoose_connection}
    /\ promise \in 0..MaxCalls
    /\ Len(attempt) <= MaxCalls
    /\ \A k \in Calls : pc[k] \in {"idle", "queued", "waiting", "returned", "thrown"}

(***************************************************************************)
(* Properties                                                              *)
(***************************************************************************)
Issued(k) == pc[k] \in {"waiting", "returned", "thrown"}

Succeeded(a) == attempt[a].status \in {"connected", "fulfilled"}

InQueue(job) == \E i \in 1..Len(queue) : queue[i] = job

\* C1: coalescing. While the first attempt has not resolved, every call issued
\* so far is suspended on that one attempt and mongoose.connect has been
\* invoked exactly once; once that attempt has succeeded, every call that
\* awaited it and has completed returned the attempt's handle.
C1_Coalescing ==
    /\ (\E k \in Calls : Issued(k)) => attempt # << >>
    /\ (attempt # << >> /\ ~Settled(1)) =>
          /\ connectCount = 1
          /\ promise = 1
          /\ conn = Null
          /\ \A k \in Calls : Issued(k) => pc[k] = "waiting" /\ awaited[k] = 1
    /\ (attempt # << >> /\ attempt[1].status = "fulfilled") =>
          \A k \in Calls :
             (awaited[k] = 1 /\ Completed(k)) =>
                 /\ pc[k] = "returned"
                 /\ result[k] = Value(attempt[1].value)

\* three calls coalesced on the first attempt and all returned its handle
C1_Witness ==
    /\ connectCount = 1
    /\ attempt[1].status = "fulfilled"
    /\ Cardinality({k \in Calls : pc[k] = "returned" /\ awaited[k] = 1
                                  /\ result[k] = Value(mongoose_connection)}) >= 3

\* C2: in every reachable state at most one connection attempt is unresolved.
C2_AtMostOneOutstanding == Cardinality(Outstanding) <= 1

\* C3: over the whole run at most one connection attempt succeeds.
C3_AtMostOneSuccess ==
    Cardinality({a \in 1..Len(attempt) : Succeeded(a)}) <= 1

\* C4: once cached.conn holds a handle, no step changes it.
C4_ConnNeverReplaced == [][conn # Null => conn' = conn]_vars

\* cached.conn was assigned from two different successful attempts
C4_Witness ==
    /\ conn # Null
    /\ \E j, k \in Calls :
                 /\ pc[j] = "returned" /\ pc[k] = "returned"
                 /\ awaited[j] # Null /\ awaited[k] # Null
                 /\ awaited[j] # awaited[k]

\* C5: idempotent cache. Once a handle is cached, mongoose.connect is not
\* invoked again and every call issued from then on returns the cached handle;
\* when the first attempt succeeded, mongoose.connect was invoked exactly once
\* in total and every completed call returned that attempt's handle.
C5_IdempotentCache ==
    [][ /\ conn # Null =>
             /\ connectCount' = connectCount
             /\ \A k \in Calls :
                   (pc[k] = "queued" /\ pc'[k] # "queued") =>
                       pc'[k] = "returned" /\ result'[k] = Value(conn)
        /\ (attempt' # << >> /\ attempt'[1].status = "fulfilled") =>
             /\ connectCount' = 1
             /\ \A k \in Calls :
                   Completed(k)' =>
                       pc'[k] = "returned" /\ result'[k] = Value(attempt'[1].value)
      ]_vars

\* one call established the connection, two later ones took the fast path
C5_Witness ==
    /\ connectCount = 1
    /\ conn = mongoose_connection
    /\ \E k \in Calls : pc[k] = "returned" /\ awaited[k] = 1
    /\ Cardinality({k \in Calls : pc[k] = "returned" /\ awaited[k] = Null
                                  /\ result[k] = Value(conn)}) >= 2

\* call k runs its catch branch in this step
CatchStep(k) == pc[k] = "waiting" /\ pc'[k] = "thrown"

\* call k runs connectToDatabase() up to its return or its await in this step
CallStep(k) == pc[k] = "queued" /\ pc'[k] # "queued"

C7_FailureFanOut ==
    [][ \A k \in Calls :
          /\ (awaited'[k] # Null /\ attempt'[awaited'[k]].status = "rejected") =>
                /\ pc'[k] \in {"waiting", "thrown"}
                /\ pc'[k] = "waiting" => InQueue(<<"resume", k>>)'
                /\ pc'[k] = "thrown" => result'[k] = Error(awaited'[k])
          /\ (pc[k] = "waiting" /\ pc'[k] # "waiting"
                /\ attempt[awaited[k]].status = "rejected") =>
                /\ pc'[k] = "thrown"
                /\ conn' = conn
      ]_vars

\* three calls were suspended on the attempt that failed and all three threw
C7_Witness ==
    /\ conn = Null
    /\ connectCount = 1
    /\ attempt[1].status = "rejected"
    /\ Cardinality({k \in Calls : pc[k] = "thrown" /\ result[k] = Error(1)}) >= 3

\* C8: fast path. A call that finds cached.conn present returns that handle in
\* the same step, awaits nothing, starts no attempt and changes neither
\* cached.conn nor cached.promise.
C8_FastPath ==
    [][ \A k \in Calls :
          (CallStep(k) /\ conn # Null) =>
             /\ pc'[k] = "returned"
             /\ result'[k] = Value(conn)
             /\ awaited'[k] = Null
             /\ ~InQueue(<<"resume", k>>)'
             /\ UNCHANGED <<conn, promise, attempt, waiters>>
      ]_vars

\* a call returned the cached handle without awaiting an attempt
C8_Witness ==
    \E k \in Calls :
       /\ pc[k] = "returned"
       /\ awaited[k] = Null
       /\ result[k] = Value(conn)
       /\ promise # Null

\* C9: no automatic retry. The number of attempts grows only by one, and only
\* in a step in which a call runs connectToDatabase() having found cached.conn
\* and cached.promise both absent; no other step (a failure, a catch branch)
\* starts an attempt.
C9_NoAutomaticRetry ==
    [][ connectCount' # connectCount =>
          \E k \in Calls :
             /\ queue # << >> /\ Head(queue) = <<"call", k>>
             /\ CallStep(k)
             /\ conn = Null /\ promise = Null
             /\ connectCount' = connectCount + 1
             /\ awaited'[k] = connectCount'
      ]_vars

\* an attempt failed, every waiter threw, nothing is queued: no attempt was
\* started on its behalf
C9_Witness ==
    /\ connectCount = 1
    /\ attempt[1].status = "rejected"
    /\ promise = Null
    /\ queue = << >>
    /\ \E k \in Calls : pc[k] = "thrown"
    /\ \A k \in Calls : pc[k] \in {"idle", "thrown"}

Thrown == {k \in Calls : pc[k] = "thrown"}

Returned == {k \in Calls : pc[k] = "returned"}

\* C10: fail-then-succeed, calls issued one after another. Every call whose
\* attempt failed threw, a call whose attempt succeeded returned the handle,
\* every call completing after a call returned returns that same handle, and
\* between calls the number of mongoose.connect invocations is the number F
\* of failed calls, plus one once a call has returned.
C10_FailThenSucceed ==
    [][ /\ NoCallInProgress' =>
             /\ connectCount' = Cardinality(Thrown') +
                                  (IF Returned' # {} THEN 1 ELSE 0)
             /\ (conn' # Null) <=> (Returned' # {})
             /\ \A k \in Returned' : result'[k] = Value(mongoose_connection)
             /\ \A k \in Thrown' : attempt'[awaited'[k]].status = "rejected"
        /\ \A k \in Calls :
             (~Completed(k) /\ Completed(k)') =>
                /\ (awaited'[k] # Null /\ attempt'[awaited'[k]].status = "rejected")
                      <=> (pc'[k] = "thrown")
                /\ Returned # {} =>
                     /\ pc'[k] = "returned"
                     /\ \A j \in Returned : result'[k] = result[j]
      ]_vars

\* two calls failed, the third connected, the fourth got the cached handle:
\* three invocations of mongoose.connect
C10_Witness ==
    /\ NoCallInProgress
    /\ Cardinality(Thrown) = 2
    /\ Cardinality(Returned) = 2
    /\ connectCount = 3
    /\ \E k \in Returned : awaited[k] = Null

\* C11: every connectToDatabase call completes. If every started attempt
\* settles and queued jobs run, a call suspended at `await cached.promise`
\* eventually returns a handle or throws.
C11_EveryCallCompletes ==
    \A k \in Calls : (pc[k] = "waiting") ~> Completed(k)

\* every call was suspended on an attempt and every call completed
C11_Witness ==
    \A k \in Calls : Completed(k) /\ awaited[k] # Null

\* C12: missing configuration is fatal at module initialization. With
\* MONGODB_URI absent or empty the module never loads, global.mongoose is
\* never created, no call is ever scheduled and no attempt is started.
C12_MissingUriFatal ==
    uri \in {"undefined", ""} =>
       /\ module # "loaded"
       /\ globalMongoose = "undefined"
       /\ connectCount = 0
       /\ queue = << >>
       /\ \A k \in Calls : pc[k] = "idle"

\* the module body ran with an empty MONGODB_URI and threw
C12_Witness ==
    /\ uri = ""
    /\ loads >= 1
    /\ module = "failed"

\* C13: module re-entry reuses the cache. A run of the module body that finds
\* global.mongoose leaves cached.conn, cached.promise and the attempts as they
\* are, and an attempt is started only by a call that finds both absent.
C13_ReloadReusesCache ==
    [][ /\ (loads' # loads /\ globalMongoose = "object") =>
             /\ conn' = conn
             /\ promise' = promise
             /\ attempt' = attempt
             /\ globalMongoose' = "object"
        /\ connectCount' # connectCount =>
             /\ loads' = loads
             /\ conn = Null /\ promise = Null
      ]_vars

\* the module was re-initialized, one attempt in all, and a call issued
\* afterwards or before got the cached handle on the fast path
C13_Witness ==
    /\ loads >= 2
    /\ connectCount = 1
    /\ conn = mongoose_connection
    /\ \E k \in Calls : pc[k] = "returned" /\ awaited[k] = Null
    /\ \E k \in Calls : pc[k] = "returned" /\ awaited[k] = 1

\* C14: in each of the four data-accessing handlers no model operation is
\* issued by a request before connectToDatabase() has returned successfully
\* in that request.
C14_ConnectBeforeModelOps ==
    \A r \in Reqs :
       /\ ops[r] # << >> =>
             /\ pc[r] = "returned"
             /\ result[r] = Value(mongoose_connection)
       /\ (\E i \in 1..Len(videos) : videos[i].by = r) => pc[r] = "returned"

\* a registration and a video creation both went through their model
\* operations
C14_Witness ==
    \E r, q \in Reqs :
       /\ ops[r] = <<"User.findOne", "User.create">>
       /\ ops[q] = <<"Video.create">>
       /\ pc[r] = "returned" /\ pc[q] = "returned"

\* C15: when connectToDatabase() fails, the request issues no model operation
\* and videos GET, videos POST with a session and registration POST with
\* email and password all answer 500, never a success status.
C15_ConnectFailureIs500 ==
    \A r \in Reqs :
       pc[r] = "thrown" =>
          /\ ops[r] = << >>
          /\ outcome[r] \notin {"200", "201"}
          /\ (hpc[r] = "done" /\ kind[r] \in {"videosGET", "videosPOST", "register"})
                => outcome[r] = "500"
          /\ kind[r] = "videosPOST" => input[r].session
          /\ kind[r] = "register" =>
                input[r].email # "" /\ input[r].password # <<"", "">>

\* a videos POST with a session and a registration both hit a failed
\* connection and both answered 500
C15_Witness ==
    \E r, q \in Reqs :
       /\ kind[r] = "videosPOST" /\ pc[r] = "thrown" /\ outcome[r] = "500"
       /\ kind[q] = "register" /\ pc[q] = "thrown" /\ outcome[q] = "500"

\* C16: the users collection holds at most one user record per email, under
\* any interleaving of registration requests.
C16_OneUserPerEmail ==
    \A i, j \in 1..Len(users) : users[i].email = users[j].email => i = j

\* two registrations with the same email both passed the findOne check and
\* both called User.create: one was stored, the other rejected
C16_Witness ==
    \E r, q \in Reqs :
       /\ r # q
       /\ input[r].email = input[q].email
       /\ ops[r] = <<"User.findOne", "User.create">>
       /\ ops[q] = <<"User.findOne", "User.create">>
       /\ outcome[r] = "201"
       /\ outcome[q] = "500"
       /\ Len(users) = 1

\* C17: a videos POST without a session answers 401, does not call
\* connectToDatabase() and creates no video record.
C17_NoSessionNoVideo ==
    \A r \in Reqs :
       (kind[r] = "videosPOST" /\ ~input[r].session) =>
          /\ outcome[r] = "401"
          /\ pc[r] = "idle"
          /\ ops[r] = << >>
          /\ \A i \in 1..Len(videos) : videos[i].by # r

\* a request without a session was refused while another, with a session,
\* created a video
C17_Witness ==
    \E r, q \in Reqs :
       /\ kind[r] = "videosPOST" /\ ~input[r].session /\ outcome[r] = "401"
       /\ kind[q] = "videosPOST" /\ input[q].session /\ outcome[q] = "200"
       /\ Len(videos) = 1

\* the stored user whose email and password are the ones request r carries
Matching(us, r) ==
    {i \in 1..Len(us) :
        /\ us[i].email = input[r].email
        /\ us[i].password[1] = "bcrypt"
        /\ us[i].password[3] = input[r].password[1]}

\* authorize of request r runs its part after connectToDatabase() returned
AuthorizeChecks(r) ==
    /\ kind[r] = "authorize"
    /\ hpc[r] = "connecting" /\ hpc'[r] = "done"
    /\ pc[r] = "returned"

\* C19: authorize returns a user object (id, email) only for a stored user
\* with the given email whose stored hash the given password matches; with
\* the email or password missing it throws before connectToDatabase(); when
\* no stored user matches it throws and returns no user.
C19_CredentialCheck ==
    [][ \A r \in Reqs :
          /\ outcome'[r] = "user" =>
                \E i \in Matching(users, r)' :
                   authUser'[r] = [id |-> users'[i].id, email |-> users'[i].email]
          /\ outcome'[r] # "user" => authUser'[r] = NoAuthUser
          /\ (kind'[r] = "authorize"
                /\ (input'[r].email = "" \/ input'[r].password = <<"", "">>)) =>
                /\ outcome'[r] = "throw"
                /\ pc'[r] = "idle"
                /\ ops'[r] = << >>
          /\ (AuthorizeChecks(r) /\ Matching(users, r) = {}) =>
                outcome'[r] = "throw"
          /\ (AuthorizeChecks(r) /\ Matching(users, r) # {}) =>
                outcome'[r] = "user"
      ]_vars

\* authorize returned the user registered with password "p"
C19_Witness ==
    \E r \in Reqs :
       /\ kind[r] = "authorize"
       /\ outcome[r] = "user"
       /\ authUser[r] = [id |-> 1, email |-> "a@x"]
       /\ input[r].password = <<"p", "">>
       /\ users[1].password = <<"bcrypt", "s2", "p">>

\* request q registered its email and password successfully
Registered(q) == kind[q] = "register" /\ outcome[q] = "201"

\* C20: register/login round trip. A successful registration stores a bcrypt
\* hash of the submitted password, never the password itself; afterwards
\* authorize with the same email returns that user when the password is the
\* registered one and throws when it is a different one.
C20_RegisterLoginRoundTrip ==
    [][ /\ \A i \in 1..Len(users') : users'[i].password[1] = "bcrypt"
        /\ \A q \in Reqs :
              (~Registered(q) /\ Registered(q)') =>
                 /\ Len(users') = Len(users) + 1
                 /\ users'[Len(users')].email = input[q].email
                 /\ users'[Len(users')].password[1] = "bcrypt"
                 /\ users'[Len(users')].password[3] = input[q].password[1]
        /\ \A r, q \in Reqs :
              (AuthorizeChecks(r) /\ Registered(q)
                    /\ input[q].email = input[r].email) =>
                 /\ (input[r].password = input[q].password) =>
                       /\ outcome'[r] = "user"
                       /\ authUser'[r].email = input[q].email
                 /\ (input[r].password # input[q].password) =>
                       /\ outcome'[r] = "throw"
                       /\ authUser'[r] = NoAuthUser
      ]_vars

\* the pathname, written out, begins with the pieces of prefix
Begins(path, prefix) ==
    /\ Len(path) >= Len(prefix)
    /\ \A i \in 1..Len(prefix) : path[i] = prefix[i]

\* C18: the authorized callback returns true whatever the token for a path
\* that starts with /api/auth, equals /login, equals /register, equals / or
\* starts with /api/videos; for any other path it returns true exactly when
\* a token is present.
C18_MiddlewareAccessRule ==
    pathname # NoPath =>
       IF \/ Begins(pathname, <<"/", "api", "/", "auth">>)
          \/ pathname = <<"/", "login">>
          \/ pathname = <<"/", "register">>
          \/ pathname = <<"/">>
          \/ Begins(pathname, <<"/", "api", "/", "videos">>)
       THEN allowed = TRUE
       ELSE allowed = (token = "jwt")

\* a path under /api/videos was let through without a token
C18_Witness ==
    /\ pathname = <<"/", "api", "/", "videos", "x">>
    /\ token = "null"
    /\ allowed = TRUE

\* C21: a failure handler never clears a newer attempt's marker. The catch
\* branch of a call sets cached.promise to null only while cached.promise is
\* the failed attempt that call awaited, never while it is another attempt
\* that is still in flight.
C21_CatchClearsOwnAttemptOnly ==
    [][ \A k \in Calls :
          (CatchStep(k) /\ promise # Null) =>
             /\ promise = awaited[k]
             /\ attempt[promise].status = "rejected"
      ]_vars

\* the window of C22: the attempt in cached.promise has succeeded and no
\* waiter has stored its handle in cached.conn yet
SuccessWindow ==
    /\ conn = Null
    /\ promise # Null
    /\ Succeeded(promise)

\* C22: a call that arrives while cached.conn is still absent and the attempt
\* in cached.promise has already succeeded starts no new attempt and awaits
\* that attempt (its continuation is queued at once when the promise is
\* already fulfilled); every call that awaited a fulfilled attempt, this one
\* included, returns that attempt's handle when it resumes.
C22_LateCallerJoins ==
    [][ \A k \in Calls :
          /\ (CallStep(k) /\ SuccessWindow) =>
                /\ attempt' = attempt
                /\ promise' = promise
                /\ conn' = Null
                /\ pc'[k] = "waiting"
                /\ awaited'[k] = promise
                /\ attempt[promise].status = "fulfilled"
                      => InQueue(<<"resume", k>>)'
          /\ (pc[k] = "waiting" /\ pc'[k] # "waiting"
                /\ attempt[awaited[k]].status = "fulfilled") =>
                /\ pc'[k] = "returned"
                /\ result'[k] = Value(attempt[awaited[k]].value)
                /\ conn' = attempt[awaited[k]].value
      ]_vars

\* Call k joined attempt 1 after it was fulfilled: its continuation sits
\* behind a call queued before k ran, while the continuations of the calls
\* suspended before the fulfilment were queued together, ahead of that call.
\* No second attempt was started and cached.conn is still absent.
C22_Witness ==
    \E j, k, m \in Calls :
       /\ queue = << <<"resume", j>>, <<"call", m>>, <<"resume", k>> >>
       /\ connectCount = 1
       /\ attempt[1].status = "fulfilled"
       /\ promise = 1
       /\ conn = Null
       /\ awaited[j] = 1 /\ awaited[k] = 1
       /\ pc[j] = "waiting" /\ pc[k] = "waiting"

\* C23: the in-flight marker is kept after success. Whenever cached.conn
\* holds a handle, cached.promise is present and is a fulfilled attempt whose
\* value is that handle; only the catch branch sets cached.promise to null.
C23_MarkerKeptAfterSuccess ==
    [][ /\ conn' # Null =>
              /\ promise' # Null
              /\ attempt'[promise'].status = "fulfilled"
              /\ attempt'[promise'].value = conn'
        /\ (promise # Null /\ promise' = Null) => \E k \in Calls : CatchStep(k)
      ]_vars

\* request r is a videos POST with a session whose body lacks a non-empty
\* title, description, videoUrl or thumbnailUrl, and has been answered
IncompletePost(r) ==
    /\ kind[r] = "videosPOST"
    /\ input[r].session
    /\ hpc[r] = "done"
    /\ input[r].json
    /\ input[r].body # {"title", "description", "videoUrl", "thumbnailUrl"}

====
